---------------------------- MODULE Spec2Model ----------------------------
(***************************************************************************)
(* Software PWM (vpetrigo/spwm).                                           *)
(*                                                                         *)
(* Spec: one channel (src/src/channel.rs) driven by the tick dispatcher    *)
(* (Spwm::irq_handler, src/src/lib.rs).  The dispatcher's loop body reads  *)
(* and writes only the fields of the channel it visits, so the model keeps *)
(* the fields of one channel; every public operation of the channel and    *)
(* one dispatcher invocation are one atomic step each.                     *)
(*                                                                         *)
(* SpecBuild: the builder of channel.rs, from new to build, and the        *)
(* configuration calls on the channel it gives.                            *)
(*                                                                         *)
(* SpecMgr: the manager of src/src/lib.rs with its four channels, its      *)
(* `active` flag and its timer start/stop callbacks.                       *)
(*                                                                         *)
(* SpecReg: the slots of the manager Spwm<N> that the integration tests    *)
(* use (register_channel, get_channel).                                    *)
(*                                                                         *)
(* SpecTick: one channel, a thread calling enable, disable and             *)
(* update_duty_cycle, and the dispatcher, where every access of an atomic  *)
(* field of enable, disable and the dispatcher is a step of its own.       *)
(*                                                                         *)
(* SpecRace: one channel and two threads calling enable and disable, every *)
(* access of an atomic field a step of its own.                            *)
(*                                                                         *)
(* The callbacks are the ones of the test suites: the on/off callback      *)
(* stores the delivered state (TEST_ON_OFF), the period callback counts    *)
(* (TEST_PERIOD), the timer callbacks store TEST_ENABLED.  `fired` and     *)
(* `mgrFired` list, in order, the callbacks the last operation invoked.    *)
(***************************************************************************)
EXTENDS Integers, Sequences, FiniteSets, TLC

(* ------------------------------ constants ------------------------------ *)

\* channel.rs:12
MAX_DUTY_CYCLE == 100

\* channel.rs:16
FREQUENCY_DIFFERENCE_REQUIRED == 100

\* the divisor of `period_ticks / 100 * duty_cycle`, channel.rs:126
PERCENT_DIVISOR == 100

(* ------------------------------- bounds -------------------------------- *)

\* dispatcher invocations counted after a successful enable
MaxTicks == 310

\* the dispatcher is not run further once the tick counter reached this value
\* (the counter is a u32 and wraps at 2^32, far beyond any explored state)
MaxCounter == 210

(* ------------------------------- inputs -------------------------------- *)

\* hardware timer frequencies handed to the builder and to update_frequency
HwFreqs == {0, 600}

\* channel frequencies: 0 and 7 are invalid for 600 Hz; 3, 4, 6 give the
\* periods 200, 150 and 100
ChanFreqs == {0, 3, 4, 6, 7}

\* duty cycles in percent (a u8); 101 is invalid
Duties == {0, 50, 99, 100, 101}

\* a callback cell is empty (NoCb) or holds the callback of the test suite
NoCb == "none"
TestCb == "test_callback"
Callbacks == {NoCb, TestCb}

\* a second callback, to tell whose callback a cell holds
OtherCb == "other_callback"

\* the builder: hardware frequencies, channel frequencies (650 / 3 = 216 and
\* 650 / 6 = 108 truncate; nothing is valid for 99 Hz) and duty cycles
BuildHwFreqs == {0, 99, 100, 650}
BuildChanFreqs == {0, 1, 2, 3, 6, 7}
BuildDuties == {0, 1, 50, 100, 101, 255}

\* the manager of lib.rs: its timer frequency, and the channel frequencies
\* given to set_channel_frequency (100 / 1 = 100 ticks, 100 / 50 = 2,
\* 100 / 101 = 0; 10001 is refused, 0 divides by zero)
MgrHwFreqs == {100}
MgrChanFreqs == {0, 1, 50, 101, 10001}
MgrDuties == {0, 50, 101}
MgrCallbacks == {TestCb, OtherCb}
StartCb == "start_test_callback"
StopCb == "stop_test_callback"

\* lib.rs:42: channels: [SpwmChannel; 4]
NumChannels == 4
ChannelIds == 0 .. (NumChannels - 1)

\* the channel indices the calls are made with: index 0 is configured,
\* enabled and disabled, index 1 is enabled and disabled as it was
\* constructed, index NumChannels is out of range
ConfiguredIds == {0, NumChannels}
SwitchedIds == {0, 1, NumChannels - 1, NumChannels}

\* the dispatcher of the manager is not run further once a tick counter
\* reached this value: periods of 2 ticks are run through, a period of 100
\* ticks is only begun (the one channel above runs whole periods)
MgrMaxCounter == 4

\* the capacity N of the manager whose slots are modelled, the channels
\* that are built to be registered, and the identifiers asked for
Capacity == 3
RegChannels == {"chA", "chB", "chC", "chD", "chE"}
SlotIds == 0 .. (Capacity - 1)
AskedIds == 0 .. Capacity
EmptySlot == "empty"

(* --------------------------- pure functions ---------------------------- *)

\* mutant: the channel frequency is only compared with the hardware frequency
input_frequency_validate_NoRatio(freq_hz, hardware_freq_hz) ==
    IF freq_hz = 0 \/ freq_hz > hardware_freq_hz
    THEN "InvalidFrequency"
    ELSE "Ok"

\* channel.rs:303-309
input_frequency_validate(freq_hz, hardware_freq_hz) ==
    IF freq_hz = 0 \/ freq_hz > hardware_freq_hz \div FREQUENCY_DIFFERENCE_REQUIRED
    THEN "InvalidFrequency"
    ELSE "Ok"

\* mutant: the quotient rounded up
FrequencyTicks_RoundUp(freq_hz, hardware_freq_hz) ==
    (hardware_freq_hz + freq_hz - 1) \div freq_hz

\* channel.rs:107: let ticks = hardware_freq_hz / freq_hz
FrequencyTicks(freq_hz, hardware_freq_hz) == hardware_freq_hz \div freq_hz

\* mutant: 100 percent is rejected too
DutyCycleInvalid_Inclusive(duty_cycle) == duty_cycle >= MAX_DUTY_CYCLE

\* channel.rs:121: if duty_cycle > MAX_DUTY_CYCLE
DutyCycleInvalid(duty_cycle) == duty_cycle > MAX_DUTY_CYCLE

\* mutant: the multiplication first, as in exact arithmetic
DutyOnTicks_MultiplyFirst(period, duty_cycle) ==
    (period * duty_cycle) \div PERCENT_DIVISOR

\* channel.rs:126: period_ticks / 100 * u32::from(duty_cycle)
DutyOnTicks(period, duty_cycle) == (period \div PERCENT_DIVISOR) * duty_cycle

\* mutant: the new value is applied at once, enabled or not
UpdateOnTicksResult_Immediate(is_enabled, old_on_ticks, new_on_ticks) ==
    <<new_on_ticks, new_on_ticks>>

\* channel.rs:66-73, update_on_ticks: <<on_ticks, update_on_ticks>> afterwards
UpdateOnTicksResult(is_enabled, old_on_ticks, new_on_ticks) ==
    IF is_enabled
    THEN <<old_on_ticks, new_on_ticks>>
    ELSE <<new_on_ticks, new_on_ticks>>

\* mutant: a plain store of true, no compare_exchange
EnableResult_AlwaysOk(is_enabled) == "Ok"

\* channel.rs:139-148: the strong compare_exchange(false, true) of enable
EnableResult(is_enabled) ==
    IF is_enabled # FALSE
    THEN (IF is_enabled THEN "AlreadyEnabled" ELSE "EnableFailed")
    ELSE "Ok"

\* mutant: On is delivered without looking at on_ticks
EnableFired_NoZeroCheck(cb, on) ==
    IF cb # NoCb THEN <<"On">> ELSE <<>>

\* channel.rs:150-154: the callbacks a successful enable invokes
EnableFired(cb, on) ==
    IF cb # NoCb /\ on # 0 THEN <<"On">> ELSE <<>>

\* mutant: a plain store of false, no compare_exchange
DisableResult_AlwaysOk(is_enabled) == "Ok"

\* channel.rs:167-176: the strong compare_exchange(true, false) of disable
DisableResult(is_enabled) ==
    IF is_enabled # TRUE
    THEN (IF ~is_enabled THEN "AlreadyDisabled" ELSE "DisableFailed")
    ELSE "Ok"

\* mutant: the counter is not reset
DisableCounter_Keep(old_counter) == old_counter

\* channel.rs:178: self.counter.store(0)
DisableCounter(old_counter) == 0

\* channel.rs:180-182: the callbacks a successful disable invokes
DisableFired(cb) ==
    IF cb # NoCb THEN <<"Off">> ELSE <<>>

\* mutant: the dispatcher advances every channel, enabled or not
DispatcherVisits_All(is_enabled) == TRUE

\* lib.rs:260: if channel.enabled.load(Ordering::Relaxed)
DispatcherVisits(is_enabled) == is_enabled

\* mutant: the boundary one tick late
PeriodBoundary_AtPeriod(current_ticks, period) == current_ticks = period

\* lib.rs:265: current_ticks == (period_ticks - 1)
PeriodBoundary(current_ticks, period) == current_ticks = period - 1

\* mutant: Off on every tick from on_ticks on
OnOffBoundary_AtOrAfter(current_ticks, on) == current_ticks >= on

\* lib.rs:285: current_ticks == on_ticks
OnOffBoundary(current_ticks, on) == current_ticks = on

\* lib.rs:274-278: on_ticks after the pending value was applied
AppliedOnTicks(update_ticks, on) ==
    IF update_ticks # on THEN update_ticks ELSE on

\* lib.rs:270-272: the period callback of a boundary tick
BoundaryPeriodFired(pcb) ==
    IF pcb # NoCb THEN <<"Period">> ELSE <<>>

\* mutant: On is re-fired without looking at on_ticks
BoundaryOnFired_NoZeroCheck(cb, new_on) ==
    IF cb # NoCb THEN <<"On">> ELSE <<>>

\* lib.rs:280-284: the on/off callback of a boundary tick
BoundaryOnFired(cb, new_on) ==
    IF new_on # 0 /\ cb # NoCb THEN <<"On">> ELSE <<>>

\* lib.rs:285-289: the on/off callback of a tick that is not a boundary
OffFired(cb, current_ticks, on) ==
    IF OnOffBoundary(current_ticks, on) /\ cb # NoCb THEN <<"Off">> ELSE <<>>

\* channel.rs:271-300, SpwmChannelBuilder::build: the error, or "Ok" and the
\* channel's fields
build(hardware_freq_hz, channel_freq_hz, duty_cycle, cb, pcb) ==
    IF hardware_freq_hz = 0
    THEN [res |-> "InvalidHardwareFrequency"]
    ELSE IF input_frequency_validate(channel_freq_hz, hardware_freq_hz) # "Ok"
    THEN [res |-> "InvalidFrequency"]
    ELSE IF DutyCycleInvalid(duty_cycle)
    THEN [res |-> "InvalidDutyCycle"]
    ELSE IF cb = NoCb \/ pcb = NoCb
    THEN [res |-> "CallbackSetError"]
    ELSE LET p == FrequencyTicks(channel_freq_hz, hardware_freq_hz)
             o == UpdateOnTicksResult(FALSE, 0, DutyOnTicks(p, duty_cycle))
         IN  [res |-> "Ok",
              period_ticks |-> p,
              on_ticks |-> o[1],
              update_on_ticks |-> o[2],
              counter |-> 0,
              enabled |-> FALSE,
              on_off_callback |-> cb,
              period_callback |-> pcb]

(* ----------------------- the builder's functions ----------------------- *)

\* channel.rs:224-233, SpwmChannelBuilder::new
builder_new(hardware_freq_hz) ==
    [state |-> "FreqHz",
     hardware_freq_hz |-> hardware_freq_hz,
     channel_freq_hz |-> 0,
     duty_cycle |-> 0,
     on_off_callback |-> NoCb,
     period_callback |-> NoCb]

\* channel.rs:271: build(self) takes the builder; what is left is whether it
\* gave a channel ("Built") or an error ("Failed")
builder_consumed(how) ==
    [state |-> how,
     hardware_freq_hz |-> 0,
     channel_freq_hz |-> 0,
     duty_cycle |-> 0,
     on_off_callback |-> NoCb,
     period_callback |-> NoCb]

(* ------------------- the manager's functions (lib.rs) ------------------- *)

\* lib.rs:28-37, #[derive(Default)]: the channels Spwm::new constructs
DefaultChannel ==
    [period_ticks |-> 0,
     on_ticks |-> 0,
     update_on_ticks |-> 0,
     counter |-> 0,
     enabled |-> FALSE,
     on_off_callback |-> NoCb,
     period_callback |-> NoCb]

\* lib.rs:74, 99, 138, 166, 186, 229: channel >= self.channels.len()
ChannelIndexInvalid_LastExcluded(channel) == channel >= NumChannels - 1

ChannelIndexInvalid(channel) == channel >= NumChannels

\* lib.rs:78: freq_hz > self.freq_hz * FREQUENCY_DIFFERENCE_REQUIRED
ManagerFrequencyInvalid(freq_hz, hardware_freq_hz) ==
    freq_hz > hardware_freq_hz * FREQUENCY_DIFFERENCE_REQUIRED

\* mutant: the cell takes every value it is given
OnceCellSet_Overwrite(cell, callback) == <<"Ok", callback>>

\* lib.rs:340-346 with the map_err of lib.rs:144 and 172 (channel.rs:81-94
\* is the same OnceCell::set): the result, and the cell afterwards
OnceCellSet(cell, callback) ==
    IF cell = NoCb
    THEN <<"Ok", callback>>
    ELSE <<"CallbackSetError", cell>>

\* one invocation of a callback: the channel index (-1 for the timer
\* callbacks of the manager), the function called, what it was called with
Ev(channel, callback, what) == <<channel, callback, what>>

\* the invocations `what` of the callback held by the cell of `channel`
Invocations(channel, callback, what) ==
    [k \in DOMAIN what |-> Ev(channel, callback, what[k])]

\* lib.rs:190-206: the compare_exchange_weak(false, true) loop on `active`
\* ends by the exchange (TRUE: go on and enable the channel) or, when it
\* read true, by return Ok(()) (FALSE); a spurious failure reads false and
\* loops
EnableProceeds(is_active) == ~is_active

\* lib.rs:211-213: the start callback, if any
StartFired(callback) ==
    IF callback # NoCb THEN <<Ev(-1, callback, "Start")>> ELSE <<>>

\* mutant: only the first channel is looked at
AnyChannelEnabled_First(chs) == chs[0].enabled

\* mutant: the other channels are not looked at
AnyChannelEnabled_Never(chs) == FALSE

\* lib.rs:235-238: self.channels.iter().any(|channel| channel.enabled.load())
AnyChannelEnabled(chs) == \E c \in ChannelIds : chs[c].enabled

\* lib.rs:243-253: compare_exchange(true, false) on `active`, and on its
\* success the stop callback, if any
StopFired(is_active, callback) ==
    IF is_active /\ callback # NoCb THEN <<Ev(-1, callback, "Stop")>> ELSE <<>>

\* lib.rs:82: self.freq_hz / freq_hz
ManagerFrequencyTicks(freq_hz, hardware_freq_hz) == hardware_freq_hz \div freq_hz

\* lib.rs:82: the division panics for a divisor of 0, in every build
DivisionByZero(freq_hz) == freq_hz = 0

\* lib.rs:358-364: what the start and stop callbacks of the tests leave in
\* TEST_ENABLED
TimerState(old, f) ==
    LET timer == SelectSeq(f, LAMBDA e : e[3] \in {"Start", "Stop"})
    IN  IF timer = <<>> THEN old ELSE timer[Len(timer)][3] = "Start"

\* lib.rs:296-304, SpwmChannel::enable: a plain store of true
ChannelEnable(ch) == [ch EXCEPT !.enabled = TRUE]

\* lib.rs:306-313, SpwmChannel::disable: plain stores of false and 0
ChannelDisable(ch) == [ch EXCEPT !.enabled = FALSE, !.counter = 0]

\* lib.rs:261-289: the loop body for an enabled channel whose
\* `period_ticks - 1` did not fail: the channel afterwards.  For
\* period_ticks = 0 the wrapped value 2^32 - 1 is beyond every counter of
\* the model, as is the -1 here.
ChannelTick(ch) ==
    LET current_ticks == ch.counter
        boundary == PeriodBoundary(current_ticks, ch.period_ticks)
    IN  IF boundary
        THEN [ch EXCEPT !.counter = 0,
                        !.on_ticks = AppliedOnTicks(ch.update_on_ticks, ch.on_ticks)]
        ELSE [ch EXCEPT !.counter = current_ticks + 1]

\* lib.rs:261-289: the callbacks that loop body invokes for channel c
ChannelTickFired(c, ch) ==
    LET current_ticks == ch.counter
        boundary == PeriodBoundary(current_ticks, ch.period_ticks)
    IN  IF boundary
        THEN Invocations(c, ch.period_callback,
                         BoundaryPeriodFired(ch.period_callback))
             \o Invocations(c, ch.on_off_callback,
                            BoundaryOnFired(ch.on_off_callback,
                                            AppliedOnTicks(ch.update_on_ticks, ch.on_ticks)))
        ELSE Invocations(c, ch.on_off_callback,
                         OffFired(ch.on_off_callback, current_ticks, ch.on_ticks))

\* lib.rs:265: `period_ticks - 1` on a u32 that is 0 overflows: a panic
\* where overflow checks are compiled in, the wrapped value where not
SubtractionOverflows(period) == period = 0

\* lib.rs:259-291: the loop over the channels from index i on;
\* overflow_checks says how the build treats an overflow
RECURSIVE IrqLoop(_, _, _, _)
IrqLoop(i, chs, f, overflow_checks) ==
    IF i = NumChannels
    THEN [channels |-> chs, fired |-> f, panicked |-> FALSE]
    ELSE IF ~DispatcherVisits(chs[i].enabled)
    THEN IrqLoop(i + 1, chs, f, overflow_checks)
    ELSE IF SubtractionOverflows(chs[i].period_ticks) /\ overflow_checks
    THEN [channels |-> [chs EXCEPT ![i].counter = chs[i].counter + 1],
          fired |-> f,
          panicked |-> TRUE]
    ELSE IrqLoop(i + 1,
                 [chs EXCEPT ![i] = ChannelTick(chs[i])],
                 f \o ChannelTickFired(i, chs[i]),
                 overflow_checks)

(* ------------------ the registry's functions (manager) ------------------ *)

\* the slots that hold no channel
EmptySlots(s) == {i \in SlotIds : s[i] = EmptySlot}

\* mutant: the last empty slot is taken
FirstEmptySlot_Last(s) == CHOOSE i \in EmptySlots(s) : \A j \in EmptySlots(s) : j <= i

\* register_channel scans the slots for the first empty one
FirstEmptySlot(s) == CHOOSE i \in EmptySlots(s) : \A j \in EmptySlots(s) : i <= j

\* mutant: with every slot occupied the last one is given away
RegisterOutcome_Evict(s, channel) ==
    IF EmptySlots(s) = {}
    THEN [res |-> "Ok", id |-> Capacity - 1,
          slots |-> [s EXCEPT ![Capacity - 1] = channel]]
    ELSE [res |-> "Ok", id |-> FirstEmptySlot(s),
          slots |-> [s EXCEPT ![FirstEmptySlot(s)] = channel]]

\* register_channel(channel): the result, the identifier, the slots afterwards
RegisterOutcome(s, channel) ==
    IF EmptySlots(s) = {}
    THEN [res |-> "NoChannelSlotAvailable", id |-> -1, slots |-> s]
    ELSE [res |-> "Ok", id |-> FirstEmptySlot(s),
          slots |-> [s EXCEPT ![FirstEmptySlot(s)] = channel]]

\* mutant: an identifier is not compared with the capacity
GetOutcome_Clamped(s, id) ==
    IF id \in SlotIds THEN s[id] ELSE s[Capacity - 1]

\* get_channel(id): the channel at that slot if occupied, else not found
\* (an empty slot and an index that is no slot alike)
GetOutcome(s, id) ==
    IF id \in SlotIds /\ s[id] # EmptySlot THEN s[id] ELSE EmptySlot

(* ---------------- statements of a dispatcher invocation --------------- *)

\* the frequencies and duty cycles of the channel the callers share: 100
\* ticks per period, the shortest period a built channel has
ConcHwFreq == 600
ConcChanFreq == 6
ConcDuties == {0, 50}

\* two threads calling into the channel, and the interrupt running the
\* dispatcher
Callers == {"a", "b"}
Irq == "irq"
Procs == Callers \cup {Irq}
Other(p) == CHOOSE q \in Callers : q # p

NoCall == [op |-> "none", res |-> "none", fired |-> <<>>, on |-> -1, races |-> FALSE]

TickIdle == [current_ticks |-> -1, period_ticks |-> -1, on_ticks |-> -1,
             update_ticks |-> -1, new_on_ticks |-> -1, quiet |-> TRUE,
             order |-> <<>>]

\* mutant: the pending value is applied before the period callback runs
BoundaryOrder_ApplyFirst ==
    <<"update", "reset", "apply", "reload", "pcb", "oncb">>

\* lib.rs:266-284, the statements of a boundary tick in program order: load
\* update_on_ticks (266), counter_reset (268), the period callback (270-272),
\* set_on_ticks (274-276), the second load of on_ticks (278), the on/off
\* callback (280-284)
BoundaryOrder ==
    <<"update", "reset", "pcb", "apply", "reload", "oncb">>

\* the statement after `label` on a boundary tick, "idle" after the last one
BoundaryAfter(label) ==
    LET i == CHOOSE k \in DOMAIN BoundaryOrder : BoundaryOrder[k] = label
    IN  IF i < Len(BoundaryOrder) THEN BoundaryOrder[i + 1] ELSE "idle"


(* -------------------------------- state -------------------------------- *)

VARIABLES
    period_ticks,       \* channel.rs:34
    on_ticks,           \* channel.rs:36
    update_on_ticks,    \* channel.rs:38, the pending on-ticks
    counter,            \* channel.rs:40
    enabled,            \* channel.rs:42
    on_off_callback,    \* channel.rs:44
    period_callback,    \* channel.rs:46
    lastOp,             \* the last operation, its arguments, its result and,
                        \* for a dispatcher invocation that advanced the
                        \* channel, the pre-increment counter t (else -1)
    fired,              \* the callbacks the last operation invoked, in order
    TEST_ON_OFF,        \* the last state the on/off callback was given
    trk,                \* what has not changed since the last successful enable:
                        \* "all" (no parameter), "period" (period_ticks), "none"
    nticks,             \* dispatcher invocations since that enable
    TEST_PERIOD,        \* period callbacks since that enable
    nOn,                \* On notifications since that enable, its own included
    nOff                \* Off notifications since that enable

\* the builder a channel comes from (channel.rs:198-205)
VARIABLES
    builder             \* its fields and its build state T; after build(self)
                        \* consumed it: whether it gave a channel

\* the manager of lib.rs:39-45 with its own four channels (lib.rs:28-37)
VARIABLES
    active,             \* lib.rs:40
    spwm_freq_hz,       \* lib.rs:41, freq_hz
    channels,           \* lib.rs:42, a record of the seven fields per index
    start_callback,     \* lib.rs:43
    stop_callback,      \* lib.rs:44
    mgrOp,              \* the last manager operation, its arguments, its result
    mgrFired,           \* the callbacks it invoked, in order
    TEST_ENABLED,       \* lib.rs:354, what start/stop_test_callback stored last
    panicked            \* the program stopped in a panic

\* the slots of a manager of fixed capacity, and the last registry call
VARIABLES
    slots,              \* per slot index the channel it holds, or EmptySlot
    regOp,              \* the last registry call, its argument and its result
    given               \* per channel the identifier register_channel
                        \* returned for it (tests/spwm.rs:87, 96), or -1

\* the callers of enable/disable and the dispatcher running at the same time,
\* every access of an atomic field a step of its own
VARIABLES
    pc,                 \* per caller and for the dispatcher: the statement it
                        \* is at ("idle": not in a call)
    call,               \* per caller its current (or last) call: the operation,
                        \* its result ("pending" until it returns), the
                        \* callbacks it invoked, the on_ticks it loaded, and
                        \* whether it races the other caller's call
    tickv               \* the locals of the dispatcher invocation in progress
                        \* (or of the last one), whether no caller took a step
                        \* during it, and its boundary events in order

chan == <<period_ticks, on_ticks, update_on_ticks, counter, enabled,
          on_off_callback, period_callback>>
obs == <<lastOp, fired, TEST_ON_OFF, trk, nticks, TEST_PERIOD, nOn, nOff>>
mgr == <<active, spwm_freq_hz, channels, start_callback, stop_callback,
         mgrOp, mgrFired, TEST_ENABLED, panicked>>
reg == <<slots, regOp, given>>
conc == <<pc, call, tickv>>
vars == <<chan, obs, builder, mgr, reg, conc>>

\* the manager before any channel of it is used: Spwm::new, lib.rs:49-61
ManagerNew(hardware_freq_hz, start, stop) ==
    /\ active = FALSE
    /\ spwm_freq_hz = hardware_freq_hz
    /\ channels = [c \in ChannelIds |-> DefaultChannel]
    /\ start_callback = start
    /\ stop_callback = stop
    /\ mgrOp = [op |-> "new", args |-> <<hardware_freq_hz>>, res |-> "Ok"]
    /\ mgrFired = <<>>
    /\ TEST_ENABLED = FALSE
    /\ panicked = FALSE

\* new(hardware_freq_hz, capacity N) allocates N empty slots
RegistryNew ==
    /\ slots = [i \in SlotIds |-> EmptySlot]
    /\ regOp = [op |-> "new", arg |-> Capacity, res |-> "Ok", id |-> -1]
    /\ given = [ch \in RegChannels |-> -1]

\* no call was made yet and the dispatcher never ran
ConcNew ==
    /\ pc = [p \in Procs |-> "idle"]
    /\ call = [p \in Callers |-> NoCall]
    /\ tickv = TickIdle

Op(name, args, res, t) == [op |-> name, args |-> args, res |-> res, t |-> t]

Count(s, e) == Cardinality({i \in DOMAIN s : s[i] = e})

\* the state the on/off callback of the tests leaves behind
Delivered(old, f) ==
    LET onoff == SelectSeq(f, LAMBDA e : e \in {"On", "Off"})
    IN  IF onoff = <<>> THEN old ELSE onoff[Len(onoff)]

NoTracking ==
    /\ trk' = "none"
    /\ nticks' = 0
    /\ TEST_PERIOD' = 0
    /\ nOn' = 0
    /\ nOff' = 0

KeepTracking == UNCHANGED <<trk, nticks, TEST_PERIOD, nOn, nOff>>

\* a configuration call: tracking goes on for what it left unchanged
TrackUpdate ==
    IF trk = "none" \/ period_ticks' # period_ticks
    THEN NoTracking
    ELSE IF on_ticks' # on_ticks \/ update_on_ticks' # update_on_ticks
    THEN /\ trk' = "period"
         /\ nOn' = 0
         /\ nOff' = 0
         /\ UNCHANGED <<nticks, TEST_PERIOD>>
    ELSE KeepTracking

(* ------------------------------- actions ------------------------------- *)

Init ==
    \E hw \in HwFreqs, f \in ChanFreqs, d \in Duties, cb \in Callbacks, pcb \in Callbacks :
        LET b == build(hw, f, d, cb, pcb)
        IN  /\ b.res = "Ok"
            /\ period_ticks = b.period_ticks
            /\ on_ticks = b.on_ticks
            /\ update_on_ticks = b.update_on_ticks
            /\ counter = b.counter
            /\ enabled = b.enabled
            /\ on_off_callback = b.on_off_callback
            /\ period_callback = b.period_callback
            /\ lastOp = Op("build", <<>>, "Ok", -1)
            /\ fired = <<>>
            /\ TEST_ON_OFF = "Off"
            /\ trk = "none"
            /\ nticks = 0
            /\ TEST_PERIOD = 0
            /\ nOn = 0
            /\ nOff = 0
            /\ builder = builder_consumed("Built")
            /\ ManagerNew(0, NoCb, NoCb)
            /\ RegistryNew
            /\ ConcNew

\* as update_frequency, restarting the period of the channel
update_frequency_Restarting(freq_hz, hardware_freq_hz) ==
    LET res == input_frequency_validate(freq_hz, hardware_freq_hz)
    IN  /\ period_ticks' = IF res = "Ok"
                           THEN FrequencyTicks(freq_hz, hardware_freq_hz)
                           ELSE period_ticks
        /\ counter' = IF res = "Ok" THEN 0 ELSE counter
        /\ UNCHANGED <<on_ticks, update_on_ticks, enabled,
                       on_off_callback, period_callback>>
        /\ lastOp' = Op("update_frequency", <<freq_hz, hardware_freq_hz>>, res, -1)
        /\ fired' = <<>>
        /\ UNCHANGED TEST_ON_OFF
        /\ TrackUpdate
        /\ UNCHANGED <<builder, mgr, reg, conc>>

\* channel.rs:105-111
update_frequency(freq_hz, hardware_freq_hz) ==
    LET res == input_frequency_validate(freq_hz, hardware_freq_hz)
    IN  /\ period_ticks' = IF res = "Ok"
                           THEN FrequencyTicks(freq_hz, hardware_freq_hz)
                           ELSE period_ticks
        /\ UNCHANGED <<on_ticks, update_on_ticks, counter, enabled,
                       on_off_callback, period_callback>>
        /\ lastOp' = Op("update_frequency", <<freq_hz, hardware_freq_hz>>, res, -1)
        /\ fired' = <<>>
        /\ UNCHANGED TEST_ON_OFF
        /\ TrackUpdate
        /\ UNCHANGED <<builder, mgr, reg, conc>>

\* channel.rs:120-129
update_duty_cycle(duty_cycle) ==
    LET res == IF DutyCycleInvalid(duty_cycle) THEN "InvalidDutyCycle" ELSE "Ok"
        o == UpdateOnTicksResult(enabled, on_ticks, DutyOnTicks(period_ticks, duty_cycle))
    IN  /\ on_ticks' = IF res = "Ok" THEN o[1] ELSE on_ticks
        /\ update_on_ticks' = IF res = "Ok" THEN o[2] ELSE update_on_ticks
        /\ UNCHANGED <<period_ticks, counter, enabled, on_off_callback, period_callback>>
        /\ lastOp' = Op("update_duty_cycle", <<duty_cycle>>, res, -1)
        /\ fired' = <<>>
        /\ UNCHANGED TEST_ON_OFF
        /\ TrackUpdate
        /\ UNCHANGED <<builder, mgr, reg, conc>>

\* channel.rs:136-157
enable ==
    LET res == EnableResult(enabled)
        f == IF res = "Ok" THEN EnableFired(on_off_callback, on_ticks) ELSE <<>>
    IN  /\ enabled' = IF res = "Ok" THEN TRUE ELSE enabled
        /\ UNCHANGED <<period_ticks, on_ticks, update_on_ticks, counter,
                       on_off_callback, period_callback>>
        /\ lastOp' = Op("enable", <<>>, res, -1)
        /\ fired' = f
        /\ TEST_ON_OFF' = Delivered(TEST_ON_OFF, f)
        /\ IF res = "Ok"
           THEN /\ trk' = IF on_ticks = update_on_ticks THEN "all" ELSE "period"
                /\ nticks' = 0
                /\ TEST_PERIOD' = 0
                /\ nOn' = IF on_ticks = update_on_ticks THEN Count(f, "On") ELSE 0
                /\ nOff' = 0
           ELSE KeepTracking
        /\ UNCHANGED <<builder, mgr, reg, conc>>

\* channel.rs:164-185
disable ==
    LET res == DisableResult(enabled)
        f == IF res = "Ok" THEN DisableFired(on_off_callback) ELSE <<>>
    IN  /\ enabled' = IF res = "Ok" THEN FALSE ELSE enabled
        /\ counter' = IF res = "Ok" THEN DisableCounter(counter) ELSE counter
        /\ UNCHANGED <<period_ticks, on_ticks, update_on_ticks,
                       on_off_callback, period_callback>>
        /\ lastOp' = Op("disable", <<>>, res, -1)
        /\ fired' = f
        /\ TEST_ON_OFF' = Delivered(TEST_ON_OFF, f)
        /\ IF res = "Ok" THEN NoTracking ELSE KeepTracking
        /\ UNCHANGED <<builder, mgr, reg, conc>>

\* lib.rs:258-293, one invocation of the dispatcher
irq_handler ==
    /\ ~DispatcherVisits(enabled) \/ counter < MaxCounter
    /\ IF DispatcherVisits(enabled)
       THEN LET current_ticks == counter
                boundary == PeriodBoundary(current_ticks, period_ticks)
                new_on == IF boundary
                          THEN AppliedOnTicks(update_on_ticks, on_ticks)
                          ELSE on_ticks
                f == IF boundary
                     THEN BoundaryPeriodFired(period_callback)
                          \o BoundaryOnFired(on_off_callback, new_on)
                     ELSE OffFired(on_off_callback, current_ticks, on_ticks)
            IN  /\ counter' = IF boundary THEN 0 ELSE counter + 1
                /\ on_ticks' = new_on
                /\ UNCHANGED <<period_ticks, update_on_ticks, enabled,
                               on_off_callback, period_callback>>
                /\ lastOp' = Op("irq_handler", <<>>, "Ok", current_ticks)
                /\ fired' = f
                /\ TEST_ON_OFF' = Delivered(TEST_ON_OFF, f)
                /\ IF trk = "none" \/ nticks + 1 > MaxTicks
                   THEN NoTracking
                   ELSE /\ trk' = trk
                        /\ nticks' = nticks + 1
                        /\ TEST_PERIOD' = TEST_PERIOD + Count(f, "Period")
                        /\ nOn' = IF trk = "all" THEN nOn + Count(f, "On") ELSE 0
                        /\ nOff' = IF trk = "all" THEN nOff + Count(f, "Off") ELSE 0
       ELSE /\ UNCHANGED chan
            /\ lastOp' = Op("irq_handler", <<>>, "Ok", -1)
            /\ fired' = <<>>
            /\ UNCHANGED <<TEST_ON_OFF, trk, nticks, TEST_PERIOD, nOn, nOff>>
    /\ UNCHANGED <<builder, mgr, reg, conc>>

Next ==
    \/ \E f \in ChanFreqs, hw \in HwFreqs : update_frequency(f, hw)
    \/ \E d \in Duties : update_duty_cycle(d)
    \/ enable
    \/ disable
    \/ irq_handler

Spec == Init /\ [][Next]_vars

(* ------------------ building a channel (channel.rs) -------------------- *)

\* SpwmChannelBuilder::new (channel.rs:224-233) for any hardware frequency;
\* no channel exists yet: the channel fields hold SpwmChannel::default()
BuildInit ==
    \E hw \in BuildHwFreqs :
        /\ builder = builder_new(hw)
        /\ period_ticks = 0
        /\ on_ticks = 0
        /\ update_on_ticks = 0
        /\ counter = 0
        /\ enabled = FALSE
        /\ on_off_callback = NoCb
        /\ period_callback = NoCb
        /\ lastOp = Op("new", <<hw>>, "Ok", -1)
        /\ fired = <<>>
        /\ TEST_ON_OFF = "Off"
        /\ trk = "none"
        /\ nticks = 0
        /\ TEST_PERIOD = 0
        /\ nOn = 0
        /\ nOff = 0
        /\ ManagerNew(0, NoCb, NoCb)
        /\ RegistryNew
        /\ ConcNew

\* channel.rs:209-212, in any build state
builder_on_off_callback(cb) ==
    /\ builder.state \in {"FreqHz", "DutyCycle", "Finalized"}
    /\ builder' = [builder EXCEPT !.on_off_callback = cb]
    /\ UNCHANGED <<chan, obs, mgr, reg, conc>>

\* channel.rs:215-218, in any build state
builder_period_callback(pcb) ==
    /\ builder.state \in {"FreqHz", "DutyCycle", "Finalized"}
    /\ builder' = [builder EXCEPT !.period_callback = pcb]
    /\ UNCHANGED <<chan, obs, mgr, reg, conc>>

\* channel.rs:236-245
builder_freq_hz(freq_hz) ==
    /\ builder.state = "FreqHz"
    /\ builder' = [builder EXCEPT !.state = "DutyCycle",
                                  !.channel_freq_hz = freq_hz,
                                  !.duty_cycle = 0]
    /\ UNCHANGED <<chan, obs, mgr, reg, conc>>

\* channel.rs:250-259
builder_duty_cycle(duty_cycle) ==
    /\ builder.state = "DutyCycle"
    /\ builder' = [builder EXCEPT !.state = "Finalized",
                                  !.duty_cycle = duty_cycle]
    /\ UNCHANGED <<chan, obs, mgr, reg, conc>>

\* channel.rs:271-300: the builder is consumed; on Ok the channel exists
builder_build ==
    /\ builder.state = "Finalized"
    /\ LET b == build(builder.hardware_freq_hz, builder.channel_freq_hz,
                      builder.duty_cycle, builder.on_off_callback,
                      builder.period_callback)
       IN  /\ IF b.res = "Ok"
              THEN /\ period_ticks' = b.period_ticks
                   /\ on_ticks' = b.on_ticks
                   /\ update_on_ticks' = b.update_on_ticks
                   /\ counter' = b.counter
                   /\ enabled' = b.enabled
                   /\ on_off_callback' = b.on_off_callback
                   /\ period_callback' = b.period_callback
              ELSE UNCHANGED chan
           /\ builder' = builder_consumed(IF b.res = "Ok" THEN "Built" ELSE "Failed")
           /\ lastOp' = Op("build",
                           <<builder.hardware_freq_hz, builder.channel_freq_hz,
                             builder.duty_cycle, builder.on_off_callback,
                             builder.period_callback>>,
                           b.res, -1)
    /\ fired' = <<>>
    /\ UNCHANGED TEST_ON_OFF
    /\ KeepTracking
    /\ UNCHANGED <<mgr, reg, conc>>

\* the builder's calls, then the configuration calls on the channel built
\* (tests/spwm.rs:51-75)
BuildNext ==
    \/ builder_on_off_callback(TestCb)
    \/ builder_period_callback(TestCb)
    \/ \E f \in BuildChanFreqs : builder_freq_hz(f)
    \/ \E d \in BuildDuties : builder_duty_cycle(d)
    \/ builder_build
    \/ /\ builder.state = "Built"
       /\ \E f \in BuildChanFreqs, hw \in BuildHwFreqs : update_frequency(f, hw)
    \/ /\ builder.state = "Built"
       /\ \E d \in BuildDuties : update_duty_cycle(d)

SpecBuild == BuildInit /\ [][BuildNext]_vars

(* ------------------------ the manager of lib.rs ------------------------ *)

\* no channel of channel.rs and no builder are in use
NoChannelBuilt ==
    /\ builder = builder_consumed("None")
    /\ period_ticks = 0
    /\ on_ticks = 0
    /\ update_on_ticks = 0
    /\ counter = 0
    /\ enabled = FALSE
    /\ on_off_callback = NoCb
    /\ period_callback = NoCb
    /\ lastOp = Op("none", <<>>, "Ok", -1)
    /\ fired = <<>>
    /\ TEST_ON_OFF = "Off"
    /\ trk = "none"
    /\ nticks = 0
    /\ TEST_PERIOD = 0
    /\ nOn = 0
    /\ nOff = 0

MgrOp(name, args, res) == [op |-> name, args |-> args, res |-> res]

\* lib.rs:49-61, Spwm::new without or with the timer callbacks (lib.rs:379, 404)
MgrInit ==
    /\ \E hw \in MgrHwFreqs :
       \E cbs \in {<<NoCb, NoCb>>, <<StartCb, StopCb>>} :
           ManagerNew(hw, cbs[1], cbs[2])
    /\ NoChannelBuilt
    /\ RegistryNew
    /\ ConcNew

\* lib.rs:73-86
Spwm_set_channel_frequency(channel, freq_hz) ==
    /\ ~panicked
    /\ LET res == IF ChannelIndexInvalid(channel) THEN "InvalidChannel"
                  ELSE IF ManagerFrequencyInvalid(freq_hz, spwm_freq_hz)
                  THEN "InvalidFrequency"
                  ELSE IF DivisionByZero(freq_hz) THEN "panic"
                  ELSE "Ok"
       IN  /\ channels' = IF res = "Ok"
                          THEN [channels EXCEPT ![channel].period_ticks =
                                   ManagerFrequencyTicks(freq_hz, spwm_freq_hz)]
                          ELSE channels
           /\ panicked' = (res = "panic")
           /\ mgrOp' = MgrOp("set_channel_frequency", <<channel, freq_hz>>, res)
    /\ mgrFired' = <<>>
    /\ UNCHANGED <<active, spwm_freq_hz, start_callback, stop_callback, TEST_ENABLED>>
    /\ UNCHANGED <<chan, obs, builder, reg, conc>>

\* lib.rs:98-114
Spwm_set_channel_duty_cycle(channel, duty_cycle) ==
    /\ ~panicked
    /\ LET res == IF ChannelIndexInvalid(channel) THEN "InvalidChannel"
                  ELSE IF DutyCycleInvalid(duty_cycle) THEN "InvalidDutyCycle"
                  ELSE "Ok"
           ch == channels[channel]
           o == UpdateOnTicksResult(ch.enabled, ch.on_ticks,
                                    DutyOnTicks(ch.period_ticks, duty_cycle))
       IN  /\ channels' = IF res = "Ok"
                          THEN [channels EXCEPT ![channel].on_ticks = o[1],
                                                ![channel].update_on_ticks = o[2]]
                          ELSE channels
           /\ mgrOp' = MgrOp("set_channel_duty_cycle", <<channel, duty_cycle>>, res)
    /\ mgrFired' = <<>>
    /\ UNCHANGED <<active, spwm_freq_hz, start_callback, stop_callback,
                   TEST_ENABLED, panicked>>
    /\ UNCHANGED <<chan, obs, builder, reg, conc>>

\* lib.rs:133-145
Spwm_set_channel_on_off_callback(channel, callback) ==
    /\ ~panicked
    /\ LET o == OnceCellSet(channels[channel].on_off_callback, callback)
           res == IF ChannelIndexInvalid(channel) THEN "InvalidChannel" ELSE o[1]
       IN  /\ channels' = IF ChannelIndexInvalid(channel)
                          THEN channels
                          ELSE [channels EXCEPT ![channel].on_off_callback = o[2]]
           /\ mgrOp' = MgrOp("set_channel_on_off_callback", <<channel, callback>>, res)
    /\ mgrFired' = <<>>
    /\ UNCHANGED <<active, spwm_freq_hz, start_callback, stop_callback,
                   TEST_ENABLED, panicked>>
    /\ UNCHANGED <<chan, obs, builder, reg, conc>>

\* lib.rs:161-173
Spwm_set_channel_period_callback(channel, callback) ==
    /\ ~panicked
    /\ LET o == OnceCellSet(channels[channel].period_callback, callback)
           res == IF ChannelIndexInvalid(channel) THEN "InvalidChannel" ELSE o[1]
       IN  /\ channels' = IF ChannelIndexInvalid(channel)
                          THEN channels
                          ELSE [channels EXCEPT ![channel].period_callback = o[2]]
           /\ mgrOp' = MgrOp("set_channel_period_callback", <<channel, callback>>, res)
    /\ mgrFired' = <<>>
    /\ UNCHANGED <<active, spwm_freq_hz, start_callback, stop_callback,
                   TEST_ENABLED, panicked>>
    /\ UNCHANGED <<chan, obs, builder, reg, conc>>

\* lib.rs:185-216
Spwm_enable(channel) ==
    /\ ~panicked
    /\ LET valid == ~ChannelIndexInvalid(channel)
           proceeds == valid /\ EnableProceeds(active)
           ch == channels[channel]
           f == IF proceeds
                THEN Invocations(channel, ch.on_off_callback,
                                 EnableFired(ch.on_off_callback, ch.on_ticks))
                     \o StartFired(start_callback)
                ELSE <<>>
       IN  /\ active' = IF proceeds THEN TRUE ELSE active
           /\ channels' = IF proceeds
                          THEN [channels EXCEPT ![channel] = ChannelEnable(ch)]
                          ELSE channels
           /\ mgrOp' = MgrOp("enable", <<channel>>,
                             IF valid THEN "Ok" ELSE "InvalidChannel")
           /\ mgrFired' = f
           /\ TEST_ENABLED' = TimerState(TEST_ENABLED, f)
    /\ UNCHANGED <<spwm_freq_hz, start_callback, stop_callback, panicked>>
    /\ UNCHANGED <<chan, obs, builder, reg, conc>>

\* lib.rs:228-256
Spwm_disable(channel) ==
    /\ ~panicked
    /\ LET valid == ~ChannelIndexInvalid(channel)
           ch == channels[channel]
           disabled == [channels EXCEPT ![channel] = ChannelDisable(ch)]
           last == valid /\ ~AnyChannelEnabled(disabled)
           f == IF valid
                THEN Invocations(channel, ch.on_off_callback,
                                 DisableFired(ch.on_off_callback))
                     \o (IF last THEN StopFired(active, stop_callback) ELSE <<>>)
                ELSE <<>>
       IN  /\ channels' = IF valid THEN disabled ELSE channels
           /\ active' = IF last THEN FALSE ELSE active
           /\ mgrOp' = MgrOp("disable", <<channel>>,
                             IF valid THEN "Ok" ELSE "InvalidChannel")
           /\ mgrFired' = f
           /\ TEST_ENABLED' = TimerState(TEST_ENABLED, f)
    /\ UNCHANGED <<spwm_freq_hz, start_callback, stop_callback, panicked>>
    /\ UNCHANGED <<chan, obs, builder, reg, conc>>

\* lib.rs:258-293, one invocation of the dispatcher of the manager, in a
\* build with overflow checks or in one without
Spwm_irq_handler ==
    /\ ~panicked
    /\ \A c \in ChannelIds :
           channels[c].enabled => channels[c].counter < MgrMaxCounter
    /\ \E overflow_checks \in BOOLEAN :
           LET r == IrqLoop(0, channels, <<>>, overflow_checks)
           IN  /\ channels' = r.channels
               /\ mgrFired' = r.fired
               /\ panicked' = r.panicked
               /\ mgrOp' = MgrOp("irq_handler", <<>>,
                                 IF r.panicked THEN "panic" ELSE "Ok")
    /\ UNCHANGED <<active, spwm_freq_hz, start_callback, stop_callback, TEST_ENABLED>>
    /\ UNCHANGED <<chan, obs, builder, reg, conc>>

MgrNext ==
    \/ \E c \in ConfiguredIds, f \in MgrChanFreqs : Spwm_set_channel_frequency(c, f)
    \/ \E c \in ConfiguredIds, d \in MgrDuties : Spwm_set_channel_duty_cycle(c, d)
    \/ \E c \in ConfiguredIds, cb \in MgrCallbacks : Spwm_set_channel_on_off_callback(c, cb)
    \/ \E c \in ConfiguredIds, cb \in MgrCallbacks : Spwm_set_channel_period_callback(c, cb)
    \/ \E c \in SwitchedIds : Spwm_enable(c)
    \/ \E c \in SwitchedIds : Spwm_disable(c)
    \/ Spwm_irq_handler

SpecMgr == MgrInit /\ [][MgrNext]_vars

(* ------------------- the slots of the manager Spwm<N> ------------------- *)

\* new(hardware_freq_hz, capacity N): N empty slots
RegInit ==
    /\ RegistryNew
    /\ ConcNew
    /\ NoChannelBuilt
    /\ ManagerNew(0, NoCb, NoCb)

\* the channels that are not in a slot: a channel is moved into the manager
\* by its registration; a refused one is back with the caller
Unregistered == {ch \in RegChannels : \A i \in SlotIds : slots[i] # ch}

\* register_channel(channel)
register_channel(channel) ==
    /\ channel \in Unregistered
    /\ LET o == RegisterOutcome(slots, channel)
       IN  /\ slots' = o.slots
           /\ regOp' = [op |-> "register_channel", arg |-> channel,
                        res |-> o.res, id |-> o.id]
           /\ given' = IF o.res = "Ok"
                       THEN [given EXCEPT ![channel] = o.id]
                       ELSE given
    /\ UNCHANGED <<chan, obs, builder, mgr, conc>>

\* get_channel(id)
get_channel(id) ==
    /\ regOp' = [op |-> "get_channel", arg |-> id,
                 res |-> GetOutcome(slots, id), id |-> id]
    /\ UNCHANGED <<slots, given>>
    /\ UNCHANGED <<chan, obs, builder, mgr, conc>>

RegNext ==
    \/ \E ch \in RegChannels : register_channel(ch)
    \/ \E id \in AskedIds : get_channel(id)

SpecReg == RegInit /\ [][RegNext]_vars

(* ------------- callers and dispatcher at the same time ----------------- *)

\* what the steps below leave alone
ConcFrame ==
    /\ UNCHANGED <<lastOp, trk, nticks, TEST_PERIOD, nOn, nOff>>
    /\ UNCHANGED <<builder, mgr, reg>>

\* a step of a caller: the dispatcher invocation in progress is no longer
\* undisturbed
Disturbed ==
    IF pc[Irq] = "idle" THEN tickv ELSE [tickv EXCEPT !.quiet = FALSE]

\* a step of the dispatcher that invokes the callbacks f
Notified(f) ==
    /\ fired' = f
    /\ TEST_ON_OFF' = Delivered(TEST_ON_OFF, f)

\* a channel built with 100 ticks per period, no call in progress
ConcInit ==
    \E d \in ConcDuties, cb \in Callbacks, pcb \in Callbacks :
        LET b == build(ConcHwFreq, ConcChanFreq, d, cb, pcb)
        IN  /\ b.res = "Ok"
            /\ period_ticks = b.period_ticks
            /\ on_ticks = b.on_ticks
            /\ update_on_ticks = b.update_on_ticks
            /\ counter = b.counter
            /\ enabled = b.enabled
            /\ on_off_callback = b.on_off_callback
            /\ period_callback = b.period_callback
            /\ lastOp = Op("build", <<>>, b.res, -1)
            /\ fired = <<>>
            /\ TEST_ON_OFF = "Off"
            /\ trk = "none"
            /\ nticks = 0
            /\ TEST_PERIOD = 0
            /\ nOn = 0
            /\ nOff = 0
            /\ builder = builder_consumed("Built")
            /\ ManagerNew(0, NoCb, NoCb)
            /\ RegistryNew
            /\ ConcNew

\* caller p enters `name`, which takes `enabled` away from the value `from`;
\* the call races the other caller's when that one is in the same operation,
\* before its compare_exchange, and the channel is in the state `from`
Entered(p, name, at, from) ==
    LET q == Other(p)
        races == pc[q] = at /\ call[q].op = name /\ enabled = from
    IN  /\ pc[p] = "idle"
        /\ pc' = [pc EXCEPT ![p] = at]
        /\ call' = [call EXCEPT ![p] = [op |-> name, res |-> "pending",
                                        fired |-> <<>>, on |-> -1,
                                        races |-> races],
                                ![q].races = races]

\* caller p returns res, having invoked f
Returned(p, res, f) ==
    /\ pc' = [pc EXCEPT ![p] = "idle"]
    /\ call' = [call EXCEPT ![p].res = res, ![p].fired = f]

\* channel.rs:136-137, enable() is entered
enable_call(p) ==
    /\ Entered(p, "enable", "en_cas", FALSE)
    /\ tickv' = Disturbed
    /\ fired' = <<>>
    /\ UNCHANGED <<chan, TEST_ON_OFF>>
    /\ ConcFrame

\* channel.rs:139-148, the compare_exchange(false, true) and the error returns
enable_compare_exchange(p) ==
    /\ pc[p] = "en_cas"
    /\ LET res == EnableResult(enabled)
       IN  IF res = "Ok"
           THEN /\ enabled' = TRUE
                /\ pc' = [pc EXCEPT ![p] = "en_load"]
                /\ UNCHANGED call
           ELSE /\ UNCHANGED enabled
                /\ Returned(p, res, <<>>)
    /\ tickv' = Disturbed
    /\ fired' = <<>>
    /\ UNCHANGED <<period_ticks, on_ticks, update_on_ticks, counter,
                   on_off_callback, period_callback, TEST_ON_OFF>>
    /\ ConcFrame

\* channel.rs:150-151, on_off_callback.get() and the load of on_ticks
enable_on_ticks_load(p) ==
    /\ pc[p] = "en_load"
    /\ pc' = [pc EXCEPT ![p] = "en_cb"]
    /\ call' = [call EXCEPT ![p].on =
                   IF on_off_callback # NoCb THEN on_ticks ELSE -1]
    /\ tickv' = Disturbed
    /\ fired' = <<>>
    /\ UNCHANGED <<chan, TEST_ON_OFF>>
    /\ ConcFrame

\* channel.rs:152-156, the callback and Ok(())
enable_callback(p) ==
    /\ pc[p] = "en_cb"
    /\ LET f == EnableFired(on_off_callback, call[p].on)
       IN  /\ Returned(p, "Ok", f)
           /\ Notified(f)
    /\ tickv' = Disturbed
    /\ UNCHANGED chan
    /\ ConcFrame

\* channel.rs:164-165, disable() is entered
disable_call(p) ==
    /\ Entered(p, "disable", "dis_cas", TRUE)
    /\ tickv' = Disturbed
    /\ fired' = <<>>
    /\ UNCHANGED <<chan, TEST_ON_OFF>>
    /\ ConcFrame

\* channel.rs:167-176, the compare_exchange(true, false) and the error returns
disable_compare_exchange(p) ==
    /\ pc[p] = "dis_cas"
    /\ LET res == DisableResult(enabled)
       IN  IF res = "Ok"
           THEN /\ enabled' = FALSE
                /\ pc' = [pc EXCEPT ![p] = "dis_store"]
                /\ UNCHANGED call
           ELSE /\ UNCHANGED enabled
                /\ Returned(p, res, <<>>)
    /\ tickv' = Disturbed
    /\ fired' = <<>>
    /\ UNCHANGED <<period_ticks, on_ticks, update_on_ticks, counter,
                   on_off_callback, period_callback, TEST_ON_OFF>>
    /\ ConcFrame

\* channel.rs:178, self.counter.store(0)
disable_counter_store(p) ==
    /\ pc[p] = "dis_store"
    /\ pc' = [pc EXCEPT ![p] = "dis_cb"]
    /\ counter' = DisableCounter(counter)
    /\ tickv' = Disturbed
    /\ fired' = <<>>
    /\ UNCHANGED <<period_ticks, on_ticks, update_on_ticks, enabled,
                   on_off_callback, period_callback, TEST_ON_OFF, call>>
    /\ ConcFrame

\* channel.rs:180-184, the callback and Ok(())
disable_callback(p) ==
    /\ pc[p] = "dis_cb"
    /\ LET f == DisableFired(on_off_callback)
       IN  /\ Returned(p, "Ok", f)
           /\ Notified(f)
    /\ tickv' = Disturbed
    /\ UNCHANGED chan
    /\ ConcFrame

\* channel.rs:120-129, a whole update_duty_cycle call of caller p, taken in
\* one step
update_duty_cycle_call(p, duty_cycle) ==
    /\ pc[p] = "idle"
    /\ LET res == IF DutyCycleInvalid(duty_cycle) THEN "InvalidDutyCycle" ELSE "Ok"
           o == UpdateOnTicksResult(enabled, on_ticks,
                                    DutyOnTicks(period_ticks, duty_cycle))
       IN  /\ on_ticks' = IF res = "Ok" THEN o[1] ELSE on_ticks
           /\ update_on_ticks' = IF res = "Ok" THEN o[2] ELSE update_on_ticks
           /\ call' = [call EXCEPT ![p] = [op |-> "update_duty_cycle", res |-> res,
                                           fired |-> <<>>, on |-> -1,
                                           races |-> FALSE],
                                   ![Other(p)].races = FALSE]
    /\ tickv' = Disturbed
    /\ fired' = <<>>
    /\ UNCHANGED <<period_ticks, counter, enabled, on_off_callback,
                   period_callback, TEST_ON_OFF, pc>>
    /\ ConcFrame

\* the dispatcher moves on to statement `label` with its locals now `t`
IrqStep(label, t) ==
    /\ pc' = [pc EXCEPT ![Irq] = label]
    /\ tickv' = t
    /\ UNCHANGED call
    /\ ConcFrame

\* lib.rs:260, the dispatcher is invoked and loads `enabled`
irq_enabled_load ==
    /\ pc[Irq] = "idle"
    /\ IrqStep(IF DispatcherVisits(enabled) THEN "tick" ELSE "idle", TickIdle)
    /\ fired' = <<>>
    /\ UNCHANGED <<chan, TEST_ON_OFF>>

\* lib.rs:261, counter_tick(): fetch_add(1), the value before it
irq_counter_tick ==
    /\ pc[Irq] = "tick"
    /\ counter < MaxCounter
    /\ counter' = counter + 1
    /\ IrqStep("period", [tickv EXCEPT !.current_ticks = counter])
    /\ fired' = <<>>
    /\ UNCHANGED <<period_ticks, on_ticks, update_on_ticks, enabled,
                   on_off_callback, period_callback, TEST_ON_OFF>>

\* lib.rs:262, the load of period_ticks
irq_period_ticks_load ==
    /\ pc[Irq] = "period"
    /\ IrqStep("on", [tickv EXCEPT !.period_ticks = period_ticks])
    /\ fired' = <<>>
    /\ UNCHANGED <<chan, TEST_ON_OFF>>

\* lib.rs:263-265 and 285, the load of on_ticks and the two comparisons on
\* the loaded values
irq_on_ticks_load ==
    /\ pc[Irq] = "on"
    /\ LET t == [tickv EXCEPT !.on_ticks = on_ticks]
       IN  IrqStep(IF PeriodBoundary(t.current_ticks, t.period_ticks)
                   THEN BoundaryOrder[1]
                   ELSE IF OnOffBoundary(t.current_ticks, t.on_ticks)
                   THEN "off"
                   ELSE "idle", t)
    /\ fired' = <<>>
    /\ UNCHANGED <<chan, TEST_ON_OFF>>

\* lib.rs:266, the load of update_on_ticks
irq_update_on_ticks_load ==
    /\ pc[Irq] = "update"
    /\ IrqStep(BoundaryAfter("update"),
               [tickv EXCEPT !.update_ticks = update_on_ticks])
    /\ fired' = <<>>
    /\ UNCHANGED <<chan, TEST_ON_OFF>>

\* lib.rs:268, counter_reset()
irq_counter_reset ==
    /\ pc[Irq] = "reset"
    /\ counter' = 0
    /\ IrqStep(BoundaryAfter("reset"),
               [tickv EXCEPT !.order = Append(@, <<"reset", 0>>)])
    /\ fired' = <<>>
    /\ UNCHANGED <<period_ticks, on_ticks, update_on_ticks, enabled,
                   on_off_callback, period_callback, TEST_ON_OFF>>

\* lib.rs:270-272, the period callback; the event keeps the on_ticks of the
\* channel at that moment
irq_period_callback ==
    /\ pc[Irq] = "pcb"
    /\ LET f == BoundaryPeriodFired(period_callback)
       IN  /\ IrqStep(BoundaryAfter("pcb"),
                      [tickv EXCEPT !.order =
                          IF f = <<>> THEN @ ELSE Append(@, <<"Period", on_ticks>>)])
           /\ Notified(f)
    /\ UNCHANGED chan

\* lib.rs:274-276, set_on_ticks(update_ticks) when it differs from on_ticks
irq_set_on_ticks ==
    /\ pc[Irq] = "apply"
    /\ on_ticks' = IF tickv.update_ticks # tickv.on_ticks
                   THEN tickv.update_ticks
                   ELSE on_ticks
    /\ IrqStep(BoundaryAfter("apply"), tickv)
    /\ fired' = <<>>
    /\ UNCHANGED <<period_ticks, update_on_ticks, counter, enabled,
                   on_off_callback, period_callback, TEST_ON_OFF>>

\* lib.rs:278, the second load of on_ticks
irq_on_ticks_reload ==
    /\ pc[Irq] = "reload"
    /\ IrqStep(BoundaryAfter("reload"),
               [tickv EXCEPT !.new_on_ticks = on_ticks,
                             !.order = Append(@, <<"apply", on_ticks>>)])
    /\ fired' = <<>>
    /\ UNCHANGED <<chan, TEST_ON_OFF>>

\* lib.rs:280-284, On when the reloaded on_ticks is not 0
irq_on_callback ==
    /\ pc[Irq] = "oncb"
    /\ LET f == BoundaryOnFired(on_off_callback, tickv.new_on_ticks)
       IN  /\ IrqStep(BoundaryAfter("oncb"),
                      [tickv EXCEPT !.order =
                          IF f = <<>> THEN @ ELSE Append(@, <<"On", tickv.new_on_ticks>>)])
           /\ Notified(f)
    /\ UNCHANGED chan

\* lib.rs:285-289, Off on the tick that saw current_ticks == on_ticks
irq_off_callback ==
    /\ pc[Irq] = "off"
    /\ LET f == OffFired(on_off_callback, tickv.current_ticks, tickv.on_ticks)
       IN  /\ IrqStep("idle", tickv)
           /\ Notified(f)
    /\ UNCHANGED chan

DispatcherStep ==
    \/ irq_enabled_load
    \/ irq_counter_tick
    \/ irq_period_ticks_load
    \/ irq_on_ticks_load
    \/ irq_update_on_ticks_load
    \/ irq_counter_reset
    \/ irq_period_callback
    \/ irq_set_on_ticks
    \/ irq_on_ticks_reload
    \/ irq_on_callback
    \/ irq_off_callback

\* one thread calling enable, disable and update_duty_cycle while the
\* dispatcher runs
TickNext ==
    \/ enable_call("a")
    \/ enable_compare_exchange("a")
    \/ enable_on_ticks_load("a")
    \/ enable_callback("a")
    \/ disable_call("a")
    \/ disable_compare_exchange("a")
    \/ disable_counter_store("a")
    \/ disable_callback("a")
    \/ \E d \in ConcDuties : update_duty_cycle_call("a", d)
    \/ DispatcherStep

SpecTick == ConcInit /\ [][TickNext]_vars

\* two threads calling enable and disable, no dispatcher
RaceNext ==
    \E p \in Callers :
        \/ enable_call(p)
        \/ enable_compare_exchange(p)
        \/ enable_on_ticks_load(p)
        \/ enable_callback(p)
        \/ disable_call(p)
        \/ disable_compare_exchange(p)
        \/ disable_counter_store(p)
        \/ disable_callback(p)

SpecRace == ConcInit /\ [][RaceNext]_vars

(* ------------------------- dispatcher timing --------------------------- *)

\* the last operation was a dispatcher invocation that advanced the channel
Ticked == lastOp.op = "irq_handler" /\ lastOp.t >= 0

\* C1: while an enabled channel's period_ticks = P is unchanged since the
\* successful enable, the period callback has fired once for every P
\* dispatcher invocations counted from the enable, and an invocation fires
\* it (once) exactly when it is invocation P, 2P, 3P, ...
C1_PeriodCallbackEveryP ==
    (enabled /\ trk # "none") =>
        /\ TEST_PERIOD = nticks \div period_ticks
        /\ (Ticked /\ nticks > 0) =>
              Count(fired, "Period") =
                  (IF nticks % period_ticks = 0 THEN 1 ELSE 0)

\* C1 witness: the second period of a 150-tick channel has just completed
C1_Witness ==
    /\ enabled /\ trk # "none" /\ Ticked
    /\ period_ticks = 150
    /\ nticks = 300
    /\ TEST_PERIOD = 2
    /\ Count(fired, "Period") = 1

\* C2: with unchanged parameters and 0 < on_ticks < period_ticks, every
\* period delivers Off exactly once, on the tick whose pre-increment counter
\* equals on_ticks, and On exactly once, on the period-boundary tick, after
\* the On of enable; so the notifications alternate.
C2_OffAndOnOncePerPeriod ==
    (enabled /\ trk = "all" /\ 0 < on_ticks /\ on_ticks < period_ticks) =>
        /\ nOn = 1 + nticks \div period_ticks
        /\ nOff = nticks \div period_ticks
                  + (IF nticks % period_ticks > on_ticks THEN 1 ELSE 0)
        /\ nOn - nOff \in {0, 1}
        /\ TEST_ON_OFF = (IF nOn > nOff THEN "On" ELSE "Off")

\* C3: a channel configured with 100% duty cycle, whatever the valid
\* frequencies: enable fires On, every period boundary re-fires On, and no
\* dispatcher tick fires Off while it stays enabled.
C3_FullDutyNeverOff ==
    (enabled /\ trk = "all"
       /\ on_ticks = (period_ticks \div 100) * 100) =>
        /\ nOff = 0
        /\ nOn = 1 + nticks \div period_ticks
        /\ TEST_ON_OFF = "On"

\* C4: a channel whose on_ticks is 0 and stays 0: neither enable nor any
\* dispatcher tick delivers On, and the period callback still fires once in
\* every period.
C4_ZeroDutyNeverOn ==
    /\ (enabled /\ on_ticks = 0 /\ lastOp.op \in {"enable", "irq_handler"}) =>
          "On" \notin {fired[i] : i \in DOMAIN fired}
    /\ (enabled /\ trk = "all" /\ on_ticks = 0) =>
          /\ nOn = 0
          /\ TEST_ON_OFF = "Off"
          /\ TEST_PERIOD = nticks \div period_ticks
          /\ (Ticked /\ nticks > 0) =>
                Count(fired, "Period") =
                    (IF nticks % period_ticks = 0 THEN 1 ELSE 0)

\* C4 witness: two periods of a 0% channel have completed
C4_Witness ==
    /\ enabled /\ trk = "all" /\ on_ticks = 0 /\ Ticked
    /\ nticks = 2 * period_ticks
    /\ TEST_PERIOD = 2
    /\ nOff = 2

(* ----------------------- staged duty-cycle update ---------------------- *)

\* C5: on an enabled channel a successful update_duty_cycle(percent) leaves
\* on_ticks alone and stages period_ticks/100*percent; no tick before the
\* next period-boundary tick (the tick that resets the counter) changes
\* on_ticks; the boundary tick makes on_ticks the staged value, where it
\* stays while nothing new is staged.
C5_StagedDutyCycle ==
    [][ (enabled /\ enabled') =>
          /\ (lastOp'.op = "update_duty_cycle" /\ lastOp'.res = "Ok") =>
                /\ on_ticks' = on_ticks
                /\ update_on_ticks' = (period_ticks \div 100) * lastOp'.args[1]
          /\ (lastOp'.op = "update_duty_cycle" /\ lastOp'.res # "Ok") =>
                update_on_ticks' = update_on_ticks
          /\ (lastOp'.op = "irq_handler" /\ counter' # 0) =>
                on_ticks' = on_ticks
          /\ (lastOp'.op = "irq_handler" /\ counter' = 0) =>
                on_ticks' = update_on_ticks
          /\ (lastOp'.op # "update_duty_cycle") =>
                update_on_ticks' = update_on_ticks
          /\ (lastOp'.op # "irq_handler") => on_ticks' = on_ticks
      ]_vars

\* C5 witness: a channel enabled with on_ticks # 0 (its enable delivered On)
\* had 0% staged and has just passed its first period boundary, which made
\* on_ticks 0 and so delivered no On
C5_Witness ==
    /\ enabled /\ trk = "period" /\ Ticked
    /\ lastOp.t = period_ticks - 1
    /\ nticks = period_ticks
    /\ on_ticks = 0 /\ update_on_ticks = 0
    /\ TEST_ON_OFF = "On"
    /\ fired = <<"Period">>

(* ------------------------------ invariants ----------------------------- *)

\* C6: on_ticks <= period_ticks in every reachable state of a built channel
C6_OnTicksWithinPeriod == on_ticks <= period_ticks

\* C7: whenever the channel is enabled (and no operation is in progress),
\* 0 <= counter < period_ticks
C7_CounterWithinPeriod == enabled => (0 <= counter /\ counter < period_ticks)

(* --------------------------- enable / disable -------------------------- *)

\* C8: enable returns Ok exactly when the channel was disabled and
\* AlreadyEnabled otherwise; disable returns Ok exactly when it was enabled
\* and AlreadyDisabled otherwise; a call that returns an error changes no
\* channel field and invokes no callback.
C8_EnableDisableTwoState ==
    [][ /\ (lastOp'.op = "enable") =>
              /\ lastOp'.res = (IF enabled THEN "AlreadyEnabled" ELSE "Ok")
              /\ enabled'
              /\ (lastOp'.res # "Ok") => (UNCHANGED chan /\ fired' = <<>>)
        /\ (lastOp'.op = "disable") =>
              /\ lastOp'.res = (IF enabled THEN "Ok" ELSE "AlreadyDisabled")
              /\ ~enabled'
              /\ (lastOp'.res # "Ok") => (UNCHANGED chan /\ fired' = <<>>)
      ]_vars

\* C8 witness: a second enable in the middle of a period was refused
C8_Witness ==
    /\ lastOp = Op("enable", <<>>, "AlreadyEnabled", -1)
    /\ enabled /\ counter = 42 /\ fired = <<>>

\* C9: a successful enable invokes the on/off callback with On exactly once
\* when on_ticks # 0 and no callback when on_ticks = 0, never the period
\* callback, and changes no field other than enabled.
C9_EnableFiresOnOnce ==
    [][ (lastOp'.op = "enable" /\ lastOp'.res = "Ok") =>
          /\ fired' = (IF on_ticks # 0 THEN <<"On">> ELSE <<>>)
          /\ enabled'
          /\ UNCHANGED <<period_ticks, on_ticks, update_on_ticks, counter,
                         on_off_callback, period_callback>>
      ]_vars

\* C9 witness: a channel with on_ticks # 0 was enabled and told On
C9_Witness ==
    /\ lastOp = Op("enable", <<>>, "Ok", -1)
    /\ on_ticks # 0
    /\ fired = <<"On">>
    /\ TEST_ON_OFF = "On"

\* C10: a successful disable sets the counter to 0 and invokes the on/off
\* callback with Off exactly once, whatever counter and on_ticks were; so a
\* disabled channel's counter is 0 and every successful enable starts the
\* first period from tick 0.
C10_DisableResetsAndFiresOff ==
    [][ /\ (lastOp'.op = "disable" /\ lastOp'.res = "Ok") =>
              (counter' = 0 /\ fired' = <<"Off">> /\ TEST_ON_OFF' = "Off")
        /\ ~enabled' => counter' = 0
        /\ (lastOp'.op = "enable" /\ lastOp'.res = "Ok") => counter' = 0
      ]_vars

\* C10 witness: a 0% channel, which never delivered On, was disabled and
\* told Off
C10_Witness ==
    /\ lastOp = Op("disable", <<>>, "Ok", -1)
    /\ on_ticks = 0 /\ update_on_ticks = 0
    /\ counter = 0
    /\ fired = <<"Off">>

\* C11: a dispatcher invocation that finds the channel disabled invokes no
\* callback and leaves counter, on_ticks, the pending on-ticks, period_ticks
\* (and every other field) unchanged.  So after enable and disable with no
\* tick in between, the Off of the disable is the last notification: every
\* state of a disabled channel has TEST_ON_OFF = Off and no period callback
\* counted, however many ticks follow.
C11_DisabledChannelUntouched ==
    [][ /\ (lastOp'.op = "irq_handler" /\ ~enabled) =>
              /\ UNCHANGED chan
              /\ fired' = <<>>
              /\ lastOp'.t = -1
              /\ UNCHANGED <<TEST_ON_OFF, TEST_PERIOD>>
        /\ ~enabled' => (TEST_ON_OFF' = "Off" /\ TEST_PERIOD' = 0)
      ]_vars

\* C11 witness: a tick on a channel that was disabled (nonzero on_ticks, so
\* its enable had fired On): nothing fired, the Off of the disable stands
C11_Witness ==
    /\ ~enabled
    /\ lastOp = Op("irq_handler", <<>>, "Ok", -1)
    /\ on_ticks = 100 /\ period_ticks = 200
    /\ counter = 0
    /\ fired = <<>>
    /\ TEST_ON_OFF = "Off"

\* C12: in every state the public operations of the manager lead to, the
\* dispatcher runs to completion without failing: every channel it
\* advances (every enabled channel) has period_ticks >= 1, so that
\* `period_ticks - 1` does not underflow, and no dispatcher invocation ends
\* in a panic.
C12_DispatcherNeverFails ==
    /\ \A c \in ChannelIds :
           channels[c].enabled => channels[c].period_ticks >= 1
    /\ (mgrOp.op = "irq_handler") => (mgrOp.res = "Ok" /\ ~panicked)

\* C13: update_frequency(freq_hz, hardware_freq_hz) returns Ok exactly when
\* freq_hz > 0 and 100 * freq_hz <= hardware_freq_hz (that is, freq_hz <=
\* hardware_freq_hz / 100 in integer division), and then period_ticks is
\* hardware_freq_hz / freq_hz, truncated; otherwise it returns
\* InvalidFrequency and period_ticks keeps its value.
C13_UpdateFrequencyResult ==
    [][ (lastOp'.op = "update_frequency") =>
          LET freq_hz == lastOp'.args[1]
              hardware_freq_hz == lastOp'.args[2]
              valid == freq_hz > 0 /\ 100 * freq_hz <= hardware_freq_hz
          IN  /\ lastOp'.res = (IF valid THEN "Ok" ELSE "InvalidFrequency")
              /\ valid =>
                    /\ period_ticks' * freq_hz <= hardware_freq_hz
                    /\ hardware_freq_hz < (period_ticks' + 1) * freq_hz
              /\ ~valid => period_ticks' = period_ticks
      ]_vars

\* C13 witness: 650 Hz / 3 Hz is accepted and truncated to 216 ticks
C13_Witness ==
    /\ lastOp = Op("update_frequency", <<3, 650>>, "Ok", -1)
    /\ period_ticks = 216
    /\ builder.state = "Built"

\* C14: update_duty_cycle(percent) on a disabled channel returns Ok exactly
\* when percent <= 100, and then on_ticks and the pending on-ticks both are
\* period_ticks / 100 * percent (the division first) at once; for
\* percent > 100 it returns InvalidDutyCycle and both keep their values.
C14_DutyCycleOnDisabled ==
    [][ (lastOp'.op = "update_duty_cycle" /\ ~enabled) =>
          LET percent == lastOp'.args[1]
          IN  /\ lastOp'.res = (IF percent <= 100 THEN "Ok" ELSE "InvalidDutyCycle")
              /\ (percent <= 100) =>
                    /\ on_ticks' = (period_ticks \div 100) * percent
                    /\ update_on_ticks' = (period_ticks \div 100) * percent
              /\ (percent > 100) =>
                    UNCHANGED <<on_ticks, update_on_ticks>>
              /\ UNCHANGED <<period_ticks, counter, enabled>>
      ]_vars

\* C14 witness: 50 percent of a 150-tick period on a disabled channel is
\* 150 / 100 * 50 = 50 ticks, in both fields
C14_Witness ==
    /\ ~enabled
    /\ lastOp = Op("update_duty_cycle", <<50>>, "Ok", -1)
    /\ period_ticks = 150
    /\ on_ticks = 50 /\ update_on_ticks = 50

\* C15: build() returns a channel exactly when hardware_freq_hz != 0,
\* 0 < channel_freq_hz <= hardware_freq_hz / 100, duty_cycle <= 100 and both
\* callbacks were supplied.  When exactly one of the four conditions is
\* violated the error is the one of that condition: InvalidFrequency,
\* InvalidDutyCycle, CallbackSetError; a hardware frequency of 0 (which no
\* channel frequency is valid for) gives InvalidHardwareFrequency.
C15_BuildResult ==
    [][ (lastOp'.op = "build") =>
          LET hardware_freq_hz == lastOp'.args[1]
              channel_freq_hz == lastOp'.args[2]
              duty_cycle == lastOp'.args[3]
              hw_ok == hardware_freq_hz # 0
              freq_ok == /\ 0 < channel_freq_hz
                         /\ 100 * channel_freq_hz <= hardware_freq_hz
              duty_ok == duty_cycle <= 100
              cb_ok == lastOp'.args[4] # NoCb /\ lastOp'.args[5] # NoCb
              res == lastOp'.res
          IN  /\ (res = "Ok") <=> (hw_ok /\ freq_ok /\ duty_ok /\ cb_ok)
              /\ (builder'.state = "Built") <=> (res = "Ok")
              /\ ~hw_ok => res = "InvalidHardwareFrequency"
              /\ (~hw_ok /\ freq_ok /\ duty_ok /\ cb_ok) =>
                    res = "InvalidHardwareFrequency"
              /\ (hw_ok /\ ~freq_ok /\ duty_ok /\ cb_ok) =>
                    res = "InvalidFrequency"
              /\ (hw_ok /\ freq_ok /\ ~duty_ok /\ cb_ok) =>
                    res = "InvalidDutyCycle"
              /\ (hw_ok /\ freq_ok /\ duty_ok /\ ~cb_ok) =>
                    res = "CallbackSetError"
      ]_vars

\* C15 witness: only the duty cycle is wrong (101 percent): InvalidDutyCycle
C15_Witness ==
    /\ lastOp = Op("build", <<650, 6, 101, TestCb, TestCb>>, "InvalidDutyCycle", -1)
    /\ builder.state = "Failed"
    /\ period_ticks = 0

\* C16: every channel a successful build() returns has period_ticks =
\* hardware_freq_hz / channel_freq_hz, on_ticks = pending on-ticks =
\* period_ticks / 100 * duty_cycle, enabled = false, counter = 0 and both
\* callbacks bound to the ones given to the builder.
C16_BuiltChannel ==
    [][ (lastOp'.op = "build" /\ lastOp'.res = "Ok") =>
          LET hardware_freq_hz == lastOp'.args[1]
              channel_freq_hz == lastOp'.args[2]
              duty_cycle == lastOp'.args[3]
          IN  /\ period_ticks' = hardware_freq_hz \div channel_freq_hz
              /\ on_ticks' = (period_ticks' \div 100) * duty_cycle
              /\ update_on_ticks' = on_ticks'
              /\ enabled' = FALSE
              /\ counter' = 0
              /\ on_off_callback' = lastOp'.args[4] /\ on_off_callback' # NoCb
              /\ period_callback' = lastOp'.args[5] /\ period_callback' # NoCb
      ]_vars

\* C16 witness: 650 Hz, 3 Hz, 50 percent: 216 ticks, 216 / 100 * 50 = 100
\* of them on
C16_Witness ==
    /\ lastOp = Op("build", <<650, 3, 50, TestCb, TestCb>>, "Ok", -1)
    /\ builder.state = "Built"
    /\ period_ticks = 216
    /\ on_ticks = 100 /\ update_on_ticks = 100
    /\ ~enabled /\ counter = 0
    /\ on_off_callback = TestCb /\ period_callback = TestCb

\* the callback invocations of kind `what` among the invocations f
Invoked(f, what) == Cardinality({k \in DOMAIN f : f[k][3] = what})

NumEnabled(chs) == Cardinality({c \in ChannelIds : chs[c].enabled})

\* C17: each callback of a channel can be set exactly once: the set on an
\* empty cell succeeds and stores the callback given, every later attempt
\* fails with CallbackSetError, a cell that holds a callback never changes,
\* and every callback that enable, disable or the dispatcher invokes for the
\* channel is the one its cell holds, that is, the first one set.
C17_CallbackSetOnce ==
    [][ /\ \A c \in ChannelIds :
              /\ (channels[c].on_off_callback # NoCb) =>
                    channels'[c].on_off_callback = channels[c].on_off_callback
              /\ (channels[c].period_callback # NoCb) =>
                    channels'[c].period_callback = channels[c].period_callback
        /\ (mgrOp'.op = "set_channel_on_off_callback" /\ mgrOp'.args[1] \in ChannelIds) =>
              LET c == mgrOp'.args[1]
              IN  IF channels[c].on_off_callback = NoCb
                  THEN /\ mgrOp'.res = "Ok"
                       /\ channels'[c].on_off_callback = mgrOp'.args[2]
                  ELSE mgrOp'.res = "CallbackSetError"
        /\ (mgrOp'.op = "set_channel_period_callback" /\ mgrOp'.args[1] \in ChannelIds) =>
              LET c == mgrOp'.args[1]
              IN  IF channels[c].period_callback = NoCb
                  THEN /\ mgrOp'.res = "Ok"
                       /\ channels'[c].period_callback = mgrOp'.args[2]
                  ELSE mgrOp'.res = "CallbackSetError"
        /\ \A k \in DOMAIN mgrFired' :
              LET e == mgrFired'[k]
              IN  (e[1] \in ChannelIds) =>
                     /\ e[2] # NoCb
                     /\ e[2] = (IF e[3] = "Period"
                                THEN channels[e[1]].period_callback
                                ELSE channels[e[1]].on_off_callback)
      ]_vars

\* C17 witness: the on/off callback of channel 0 is the test's; setting
\* another one was refused and the test's is still there
C17_Witness ==
    /\ mgrOp = MgrOp("set_channel_on_off_callback", <<0, OtherCb>>, "CallbackSetError")
    /\ channels[0].on_off_callback = TestCb
    /\ channels[0].period_callback = OtherCb
    /\ channels[0].on_ticks = 50

Occupied(s) == {i \in SlotIds : s[i] # EmptySlot}

\* C18: for a manager of capacity N, register_channel succeeds exactly while
\* fewer than N channels are registered (the first N calls) and every later
\* call fails with NoChannelSlotAvailable and changes no slot; the slots that
\* hold a channel never change, and get_channel with the identifier a
\* channel was given returns that channel, also after the refused calls.
C18_CapacityExhausted ==
    [][ /\ (regOp'.op = "register_channel") =>
              /\ regOp'.res = (IF Cardinality(Occupied(slots)) < Capacity
                               THEN "Ok"
                               ELSE "NoChannelSlotAvailable")
              /\ (regOp'.res = "Ok") =>
                    Cardinality(Occupied(slots')) = Cardinality(Occupied(slots)) + 1
              /\ (regOp'.res # "Ok") => (slots' = slots /\ given' = given)
        /\ \A i \in Occupied(slots) : slots'[i] = slots[i]
        /\ (regOp'.op = "get_channel") =>
              \A ch \in RegChannels :
                  (given[ch] = regOp'.arg) => (regOp'.res = ch)
        /\ Cardinality({ch \in RegChannels : given'[ch] # -1}) =
              Cardinality(Occupied(slots'))
      ]_vars

\* C18 witness: with all slots taken one more registration was refused,
\* and the channel given identifier 0 is (still) the one in slot 0
C18_Witness ==
    /\ regOp = [op |-> "register_channel", arg |-> "chE",
                res |-> "NoChannelSlotAvailable", id |-> -1]
    /\ Occupied(slots) = SlotIds
    /\ given["chB"] = 0 /\ slots[0] = "chB"
    /\ given["chE"] = -1

\* C19: register_channel stores the channel in the lowest-indexed empty
\* slot and returns that index; the identifiers of distinct registered
\* channels are distinct; get_channel(id) returns the channel registered
\* under id whatever was called since, and not found for an index under
\* which nothing was registered.
C19_LowestSlotStableId ==
    [][ /\ (regOp'.op = "register_channel" /\ regOp'.res = "Ok") =>
              LET id == regOp'.id
              IN  /\ id \in SlotIds
                  /\ slots[id] = EmptySlot
                  /\ \A j \in SlotIds : (j < id) => (slots[j] # EmptySlot)
                  /\ slots' = [slots EXCEPT ![id] = regOp'.arg]
                  /\ given'[regOp'.arg] = id
        /\ \A c1, c2 \in RegChannels :
              (c1 # c2 /\ given'[c1] # -1) => (given'[c1] # given'[c2])
        /\ \A ch \in RegChannels :
              (given[ch] # -1) => (given'[ch] = given[ch])
        /\ (regOp'.op = "get_channel") =>
              IF \E ch \in RegChannels : given[ch] = regOp'.arg
              THEN given[regOp'.res] = regOp'.arg
              ELSE regOp'.res = EmptySlot
      ]_vars

\* C19 witness: the second registration took slot 1, and get_channel(1)
\* returned that channel after a third one was registered
C19_Witness ==
    /\ regOp = [op |-> "get_channel", arg |-> 1, res |-> "chD", id |-> 1]
    /\ given["chD"] = 1
    /\ given["chA"] = 0
    /\ given["chC"] = 2

\* C20: with a start and a stop callback given to Spwm::new, the start
\* callback is invoked exactly by the steps that take the number of enabled
\* channels from zero to one and the stop callback exactly by the steps that
\* take it back to zero; a start finds the timer stopped and a stop finds it
\* started, so the two alternate, beginning with start.
C20_StartStopAlternate ==
    [][ (start_callback # NoCb /\ stop_callback # NoCb) =>
          LET before == NumEnabled(channels)
              after == NumEnabled(channels')
              starts == Invoked(mgrFired', "Start")
              stops == Invoked(mgrFired', "Stop")
          IN  /\ starts = (IF before = 0 /\ after = 1 THEN 1 ELSE 0)
              /\ stops = (IF before > 0 /\ after = 0 THEN 1 ELSE 0)
              /\ (starts = 1) => (~TEST_ENABLED /\ TEST_ENABLED')
              /\ (stops = 1) => (TEST_ENABLED /\ ~TEST_ENABLED')
              /\ (starts = 0 /\ stops = 0) => (TEST_ENABLED' = TEST_ENABLED)
              /\ after \in {0, 1} => (TEST_ENABLED' <=> (after = 1))
      ]_vars

\* C20 witness: channel 1 was the only enabled one and is disabled: the stop
\* callback was invoked and the timer is off (lib.rs:411-414)
C20_Witness ==
    /\ mgrOp = MgrOp("disable", <<1>>, "Ok")
    /\ mgrFired = <<Ev(-1, StopCb, "Stop")>>
    /\ ~TEST_ENABLED
    /\ ~active
    /\ NumEnabled(channels) = 0
    /\ channels[0].on_off_callback = TestCb


\* ---------------------------------------------------------------------------
\* The operations of the manager that take a channel index
IndexedOps == {"set_channel_frequency", "set_channel_duty_cycle",
               "set_channel_on_off_callback", "set_channel_period_callback",
               "enable", "disable"}

\* C21: every operation of the manager that takes a channel index returns
\* InvalidChannel when the index is not below the number of channels (and only
\* then), and the call then changes no channel, nothing of the manager and
\* invokes no callback.
C21_InvalidChannelRefused ==
    [][ (mgrOp'.op \in IndexedOps /\ ~panicked) =>
          /\ (mgrOp'.res = "InvalidChannel") <=> (mgrOp'.args[1] >= NumChannels)
          /\ (mgrOp'.args[1] >= NumChannels) =>
                /\ channels' = channels
                /\ active' = active
                /\ spwm_freq_hz' = spwm_freq_hz
                /\ start_callback' = start_callback
                /\ stop_callback' = stop_callback
                /\ TEST_ENABLED' = TEST_ENABLED
                /\ panicked' = panicked
                /\ mgrFired' = <<>> ]_vars

\* an invalid index was refused while a channel was enabled and running
C21_Witness ==
    /\ mgrOp = MgrOp("disable", <<NumChannels>>, "InvalidChannel")
    /\ active
    /\ \E c \in ChannelIds : channels[c].enabled /\ channels[c].counter > 0

\* C26: whenever Spwm::enable(c) returns Ok for a valid index c, channel c is
\* enabled on return, whichever other channels were enabled at the call.
C26_EnableOkEnables ==
    (mgrOp.op = "enable" /\ mgrOp.res = "Ok") => channels[mgrOp.args[1]].enabled

\* C27: set_channel_frequency(c, f) with a valid index returns InvalidFrequency,
\* without panicking and without changing period_ticks, whenever f = 0 or the
\* hardware frequency is less than 100 times f; otherwise it stores
\* period_ticks = hardware frequency / f, which is then at least 100.
C27_ManagerFrequencyChecked ==
    [][ (mgrOp'.op = "set_channel_frequency" /\ ~panicked
         /\ mgrOp'.args[1] < NumChannels) =>
          LET c == mgrOp'.args[1]
              f == mgrOp'.args[2]
          IN  IF f = 0 \/ spwm_freq_hz < FREQUENCY_DIFFERENCE_REQUIRED * f
              THEN /\ mgrOp'.res = "InvalidFrequency"
                   /\ ~panicked'
                   /\ channels'[c].period_ticks = channels[c].period_ticks
              ELSE /\ mgrOp'.res = "Ok"
                   /\ channels'[c].period_ticks = spwm_freq_hz \div f
                   /\ channels'[c].period_ticks >= FREQUENCY_DIFFERENCE_REQUIRED ]_vars

\* ---------------------------------------------------------------------------
\* C22: for an enabled channel with unchanged parameters and
\* 0 < on_ticks < period_ticks the output reads On for exactly on_ticks ticks
\* of every period and Off for the remaining period_ticks - on_ticks: after n
\* dispatcher invocations since enable() the output is On exactly when
\* n mod period_ticks < on_ticks.
C22_OnPhaseLength ==
    (enabled /\ trk = "all" /\ on_off_callback = TestCb
     /\ 0 < on_ticks /\ on_ticks < period_ticks) =>
        ((TEST_ON_OFF = "On") <=> (nticks % period_ticks < on_ticks))

\* C23: a dispatcher tick of an enabled channel whose pre-increment counter t
\* satisfies t >= period_ticks - 1 is handled as a period boundary: the
\* counter is reset to 0 and the period callback fires on that very tick.
C23_LateBoundary ==
    [][ (lastOp'.op = "irq_handler" /\ enabled /\ lastOp'.t >= period_ticks - 1) =>
          /\ counter' = 0
          /\ (period_callback = TestCb => Count(fired', "Period") = 1) ]_vars

\* C28: a successful update_frequency changes only period_ticks: on_ticks, the
\* pending on-ticks, the counter, the enabled flag and the callbacks keep their
\* values and no callback is invoked, enabled or not.
C28_UpdateFrequencyFrame ==
    [][ (lastOp'.op = "update_frequency" /\ lastOp'.res = "Ok") =>
          /\ period_ticks' = lastOp'.args[2] \div lastOp'.args[1]
          /\ on_ticks' = on_ticks
          /\ update_on_ticks' = update_on_ticks
          /\ counter' = counter
          /\ enabled' = enabled
          /\ on_off_callback' = on_off_callback
          /\ period_callback' = period_callback
          /\ fired' = <<>>
          /\ TEST_ON_OFF' = TEST_ON_OFF ]_vars

\* the period of an enabled channel was shortened in mid-period, with a duty
\* cycle pending
C28_Witness ==
    /\ lastOp = Op("update_frequency", <<6, 600>>, "Ok", -1)
    /\ enabled
    /\ counter > 0
    /\ on_ticks # update_on_ticks
    /\ on_ticks > 100

\* C29: a dispatcher tick of an enabled channel whose pre-increment counter is
\* neither a period boundary nor equal to on_ticks invokes no callback and
\* only adds 1 to the counter; and no dispatcher tick ever modifies
\* period_ticks, the pending on-ticks or the enabled flag.
C29_PlainTickFrame ==
    [][ lastOp'.op = "irq_handler" =>
          /\ period_ticks' = period_ticks
          /\ update_on_ticks' = update_on_ticks
          /\ enabled' = enabled
          /\ (enabled /\ counter < period_ticks - 1 /\ counter # on_ticks) =>
                /\ counter' = counter + 1
                /\ on_ticks' = on_ticks
                /\ on_off_callback' = on_off_callback
                /\ period_callback' = period_callback
                /\ fired' = <<>>
                /\ TEST_ON_OFF' = TEST_ON_OFF ]_vars

\* a plain tick of a channel with both callbacks, after its Off tick
C29_Witness ==
    /\ lastOp.op = "irq_handler"
    /\ enabled
    /\ on_off_callback = TestCb
    /\ period_callback = TestCb
    /\ 0 < on_ticks
    /\ lastOp.t > on_ticks
    /\ lastOp.t < period_ticks - 1
    /\ counter = lastOp.t + 1
    /\ fired = <<>>

\* ---------------------------------------------------------------------------
\* the names of the boundary events of the last dispatcher invocation
EventNames == [i \in DOMAIN tickv.order |-> tickv.order[i][1]]

\* the value the event `name` kept, -1 when there was no such event
EventValue(name) ==
    IF \E i \in DOMAIN tickv.order : tickv.order[i][1] = name
    THEN tickv.order[CHOOSE i \in DOMAIN tickv.order : tickv.order[i][1] = name][2]
    ELSE -1

IsPrefix(a, b) == Len(a) <= Len(b) /\ \A i \in DOMAIN a : a[i] = b[i]

\* C24: on a period-boundary tick the dispatcher resets the counter to 0,
\* then invokes the period callback, then applies the pending on-ticks, then
\* invokes the on/off callback with On exactly when the updated on_ticks is
\* not 0: the period callback runs while on_ticks still holds the completed
\* period's value, and the On decision uses the new period's value.
C24_BoundaryOrder ==
    /\ IsPrefix(EventNames, <<"reset", "Period", "apply", "On">>)
    /\ tickv.order # <<>> => counter = 0
    /\ (pc[Irq] = "idle" /\ tickv.order # <<>>) =>
          /\ Len(tickv.order) >= 3
          /\ (EventValue("On") # -1) <=> (EventValue("apply") # 0)
    /\ tickv.quiet =>
          /\ EventValue("Period") \in {-1, tickv.on_ticks}
          /\ EventValue("apply") \in {-1, tickv.update_ticks}
          /\ EventValue("On") \in {-1, tickv.update_ticks}

\* an undisturbed boundary tick whose period callback ran with on_ticks = 0,
\* the value of the completed period, before the pending 50 was applied and
\* delivered as On
C24_Witness ==
    /\ pc[Irq] = "idle"
    /\ tickv.quiet
    /\ tickv.order = << <<"reset", 0>>, <<"Period", 0>>, <<"apply", 50>>, <<"On", 50>> >>

\* disable() of caller a has returned Ok and no dispatcher invocation is in
\* progress
DisableSettled ==
    /\ pc["a"] = "idle"
    /\ call["a"].op = "disable"
    /\ call["a"].res = "Ok"
    /\ pc[Irq] = "idle"

\* C25: however disable() interleaves with a dispatcher tick of the channel,
\* once disable() has returned Ok and the tick in flight has finished, the
\* last on/off notification delivered is Off and the counter is 0 (so that
\* nothing is left to fire before the next enable()).
C25_DisableWinsRace ==
    DisableSettled => (TEST_ON_OFF = "Off" /\ counter = 0)

\* C30: of two callers racing in enable() on a disabled channel exactly one
\* returns Ok and delivers On, at most once in total, and the other returns
\* AlreadyEnabled or EnableFailed and invokes nothing; likewise for two
\* callers racing in disable() on an enabled channel, with Off,
\* AlreadyDisabled and DisableFailed.
C30_OneWinner ==
    \A p \in Callers :
        LET q == Other(p)
            en == call[p].op = "enable"
        IN  (call[p].races /\ call[q].races /\ call[p].op = call[q].op) =>
               /\ Len(call[p].fired) + Len(call[q].fired) <= 1
               /\ (pc[p] = "idle" /\ pc[q] = "idle") =>
                     \E w \in {p, q} :
                        /\ call[w].res = "Ok"
                        /\ call[w].fired =
                              IF en THEN (IF on_ticks # 0 THEN <<"On">> ELSE <<>>)
                                    ELSE <<"Off">>
                        /\ call[Other(w)].res \in
                              IF en THEN {"AlreadyEnabled", "EnableFailed"}
                                    ELSE {"AlreadyDisabled", "DisableFailed"}
                        /\ call[Other(w)].fired = <<>>

\* both racing enable() calls have returned: a with Ok and On, b with
\* AlreadyEnabled and nothing
C30_Witness ==
    /\ pc["a"] = "idle"
    /\ pc["b"] = "idle"
    /\ call["a"] = [op |-> "enable", res |-> "Ok", fired |-> <<"On">>,
                    on |-> 50, races |-> TRUE]
    /\ call["b"] = [op |-> "enable", res |-> "AlreadyEnabled", fired |-> <<>>,
                    on |-> -1, races |-> TRUE]

\* ---------------------------------------------------------------------------
\* C31: whenever the channel is disabled and no operation on it is in
\* progress, on_ticks equals the pending on-ticks, after any sequence of
\* update_duty_cycle, enable, disable and dispatcher ticks.
C31_DisabledNothingPending ==
    ~enabled => on_ticks = update_on_ticks

\* C32: between the operations of the manager, `active` is true exactly when
\* at least one channel is enabled.
C32_ActiveIffEnabled ==
    active <=> (\E c \in ChannelIds : channels[c].enabled)

\* disable(0) left the manager active, channel 1 being enabled and running
C32_Witness ==
    /\ mgrOp = MgrOp("disable", <<0>>, "Ok")
    /\ active
    /\ ~channels[0].enabled
    /\ channels[1].enabled
    /\ channels[1].counter > 0

=============================================================================
